---- MODULE Spec2Model ----
(***************************************************************************)
(* Model of src/server.py: the Docling Granite HTTP server.                *)
(*                                                                         *)
(* One POST request (/convert or /test-granite) is in flight at a time:    *)
(* the handler is a coroutine whose only suspension point is the read of   *)
(* the upload, everything after it runs synchronously on the event loop.   *)
(* The three GET endpoints are plain functions and may answer at any time. *)
(* State that survives a request: the served image directory, the          *)
(* temporary directory and the module global DOCLING_OK.                   *)
(***************************************************************************)
EXTENDS Integers, Sequences, FiniteSets, TLC

\* ------------------------------------------------------------ bounds
MaxRequests == 2
MaxStemLen == 1

\* ------------------------------------------------------------ constants
LimiteMB == 25
BytesPorMB == 1024 * 1024

\* ------------------------------------------------------------ strings
\* A string is a sequence of one-character strings.

RECURSIVE SeqsAte(_, _)
SeqsAte(S, n) ==
    IF n = 0 THEN {<<>>}
    ELSE LET menores == SeqsAte(S, n - 1)
         IN  menores \cup {Append(s, c) : s \in {t \in menores : Len(t) = n - 1}, c \in S}

\* str.lower() on one character
LowerChar(c) ==
    CASE c = "P" -> "p"
      [] c = "D" -> "d"
      [] c = "F" -> "f"
      [] c = "T" -> "t"
      [] c = "X" -> "x"
      [] c = "M" -> "m"
      [] c = "B" -> "b"
      [] c = "S" -> "s"
      [] OTHER -> c

\* str.lower()
Lower(s) == [i \in 1..Len(s) |-> LowerChar(s[i])]

\* str.endswith(suf)
EndsWith(s, suf) ==
    /\ Len(s) >= Len(suf)
    /\ SubSeq(s, Len(s) - Len(suf) + 1, Len(s)) = suf

\* `sub in s`
Contains(s, sub) ==
    \E i \in 1..(Len(s) - Len(sub) + 1) : SubSeq(s, i, i + Len(sub) - 1) = sub

DotPdf == <<".", "p", "d", "f">>

\* file.filename: None, or a string
NoName == [presente |-> FALSE, valor |-> <<>>]
Name(s) == [presente |-> TRUE, valor |-> s]

\* the filenames tried: a stem followed by an ending
StemChars == {"a"}
Endings ==
    {<<>>,
     <<".", "p", "d", "f">>,
     <<".", "P", "D", "F">>,
     <<"p", "d", "f">>,
     <<".", "p", "d">>,
     <<".", "t", "x", "t">>,
     <<".", "p", "d", "f", ".", "T", "X", "T">>,
     <<".", "p", "d", "f", " ">>}
Filenames ==
    {NoName} \cup {Name(s \o e) : s \in SeqsAte(StemChars, MaxStemLen), e \in Endings}

\* the extension check without its dot
NomeAceitoSemPonto(fn) == EndsWith(Lower(fn.valor), <<"p", "d", "f">>)

\* line 367: file.filename.lower().endswith('.pdf'); raises AttributeError on None
NomeAceito(fn) == EndsWith(Lower(fn.valor), DotPdf)

\* ------------------------------------------------------------ sizes
Limite == LimiteMB * BytesPorMB
Tamanhos == {1, Limite, Limite + 1}

\* line 372: len(conteudo) / (1024 * 1024), an exact quotient for these sizes,
\* kept as whole part and remainder
TamanhoMB(n) == [inteiro |-> n \div BytesPorMB, resto |-> n % BytesPorMB]

\* the size check with >= in place of >
MuitoGrandeInclusive(n) == TamanhoMB(n).inteiro >= LimiteMB

\* line 375: tamanho_mb > 25
MuitoGrande(n) ==
    LET t == TamanhoMB(n)
    IN  t.inteiro > LimiteMB \/ (t.inteiro = LimiteMB /\ t.resto > 0)

\* ------------------------------------------------------------ exceptions
\* str(e) of an exception raised while processing
MsgMemory == <<"M", "e", "m", "o", "r", "y">>
MsgBufferSize == <<"B", "u", "f", "f", "e", "r", " ", "S", "i", "z", "e">>
MsgBuffer == <<"b", "u", "f", "f", "e", "r">>
Msgs == {MsgMemory, MsgBufferSize, MsgBuffer}

\* the message test without .lower()
ErroDeMemoriaSemLower(msg) ==
    \/ Contains(msg, <<"b", "u", "f", "f", "e", "r", " ", "s", "i", "z", "e">>)
    \/ Contains(msg, <<"m", "e", "m", "o", "r", "y">>)

\* line 254: "buffer size" in str(e).lower() or "memory" in str(e).lower()
ErroDeMemoria(msg) ==
    \/ Contains(Lower(msg), <<"b", "u", "f", "f", "e", "r", " ", "s", "i", "z", "e">>)
    \/ Contains(Lower(msg), <<"m", "e", "m", "o", "r", "y">>)

SemErro == [houve |-> FALSE, msg |-> <<>>]
Erro(msg) == [houve |-> TRUE, msg |-> msg]

\* ------------------------------------------------------------ the converted document
\* prov: 0 when the item carries no provenance, else the page_no of prov[0]
Provs == {0, 2}

\* doc.texts and doc.tables: a blank text with a table whose rows cannot be read
\* (ok = FALSE), or a text on page 2 with a readable table
TextosTabelas ==
    {[texts |-> <<[text |-> <<" ">>, prov |-> 0]>>, tables |-> <<[prov |-> 2, ok |-> FALSE]>>],
     [texts |-> <<[text |-> <<"t">>, prov |-> 2]>>, tables |-> <<[prov |-> 0, ok |-> TRUE]>>]}

\* image: "none" when img.image.uri is missing or names no file, else the file's content
\* desc: the picture carries a 'description' annotation
\* caption: "" when absent, "obj" for a value json cannot encode
Pics ==
    {[prov |-> 0, image |-> "imgA", desc |-> TRUE, caption |-> ""],
     [prov |-> 2, image |-> "imgA", desc |-> FALSE, caption |-> "obj"],
     [prov |-> 2, image |-> "none", desc |-> TRUE, caption |-> ""]}
\* doc.pictures: none, one picture, or two pictures on the same page
Pictures ==
    {<<>>} \cup {<<p>> : p \in Pics}
    \cup {<<[prov |-> 0, image |-> "imgB", desc |-> FALSE, caption |-> ""],
             [prov |-> 0, image |-> "imgA", desc |-> TRUE, caption |-> ""]>>}

Docs == {[texts |-> tt.texts, tables |-> tt.tables, pictures |-> ps] :
            tt \in TextosTabelas, ps \in Pictures}

\* lines 88-90: pagina = 1, or prov[0].page_no
Pagina(prov) == IF prov # 0 THEN prov ELSE 1

RECURSIVE Strip(_)
\* str.strip()
Strip(s) ==
    IF s = <<>> THEN s
    ELSE IF Head(s) = " " THEN Strip(Tail(s))
    ELSE IF s[Len(s)] = " " THEN Strip(SubSeq(s, 1, Len(s) - 1))
    ELSE s

\* line 86: texto.text and texto.text.strip()
TextoValido(t) == t.text # <<>> /\ Strip(t.text) # <<>>

RECURSIVE Join(_)
\* "\n".join(linhas)
Join(linhas) ==
    IF linhas = <<>> THEN <<>>
    ELSE IF Len(linhas) = 1 THEN linhas[1]
    ELSE linhas[1] \o <<"\n">> \o Join(Tail(linhas))

\* f"granite_img_p{pagina}_{i}.png" / f"fallback_img_p{pagina}_{i}.png"
NomeArquivo(prefixo, pagina, i) == <<prefixo, pagina, i>>
SemUrl == <<>>
\* f"/images/{nome_arquivo}", or None
Url(prefixo, pic, i) ==
    IF pic.image # "none" THEN NomeArquivo(prefixo, Pagina(pic.prov), i) ELSE SemUrl

\* lines 92-96 / 291-295
ElemTexto(t) == [tipo |-> "texto", conteudo |-> t.text, pagina |-> Pagina(t.prov)]
\* lines 112-116 / 305-309
ElemTabela(t) == [tipo |-> "tabela", dados |-> <<>>, pagina |-> Pagina(t.prov)]

\* lines 149-187: the descriptions kept for one picture
Descricoes(pic) ==
    IF pic.desc THEN <<[texto |-> <<"d">>, modelo |-> "granite-vision", confianca |-> "alta"]>>
    ELSE <<>>

\* lines 190-197
ElemImagemGranite(pic, i) ==
    [tipo |-> "imagem", url |-> Url("granite_img", pic, i), legenda |-> pic.caption,
     descricoes_granite |-> Descricoes(pic), pagina |-> Pagina(pic.prov),
     total_descricoes |-> Len(Descricoes(pic))]

\* lines 327-333
ElemImagemFallback(pic, i) ==
    [tipo |-> "imagem", url |-> Url("fallback_img", pic, i), legenda |-> pic.caption,
     descricoes_granite |-> <<>>, pagina |-> Pagina(pic.prov)]

Textuais(doc) == SelectSeq(doc.texts, TextoValido)
TabelasLidas(doc) == SelectSeq(doc.tables, LAMBDA t : t.ok)

\* lines 79-211: elementos after the three loops
ElementosGranite(doc) ==
    [i \in 1..Len(Textuais(doc)) |-> ElemTexto(Textuais(doc)[i])]
    \o [i \in 1..Len(TabelasLidas(doc)) |-> ElemTabela(TabelasLidas(doc)[i])]
    \o [i \in 1..Len(doc.pictures) |-> ElemImagemGranite(doc.pictures[i], i - 1)]

\* lines 281-335
ElementosFallback(doc) ==
    [i \in 1..Len(Textuais(doc)) |-> ElemTexto(Textuais(doc)[i])]
    \o [i \in 1..Len(TabelasLidas(doc)) |-> ElemTabela(TabelasLidas(doc)[i])]
    \o [i \in 1..Len(doc.pictures) |-> ElemImagemFallback(doc.pictures[i], i - 1)]

\* line 176: the line added to texto_completo for a described picture
LinhaGranite(pic, i) ==
    <<"[Granite Vision - Pagina ", ToString(Pagina(pic.prov)), ", Imagem ", ToString(i + 1), "]: ">>
    \o <<"d">>

RECURSIVE LinhasGranite(_, _)
LinhasGranite(pics, i) ==
    IF i >= Len(pics) THEN <<>>
    ELSE (IF pics[i + 1].desc THEN <<LinhaGranite(pics[i + 1], i)>> ELSE <<>>)
         \o LinhasGranite(pics, i + 1)

\* texto_completo of the Granite path (lines 97, 176)
TextoCompletoGranite(doc) ==
    [i \in 1..Len(Textuais(doc)) |-> Textuais(doc)[i].text] \o LinhasGranite(doc.pictures, 0)

NenhumTexto == <<"Nenhum texto foi extraido do documento.">>

\* lines 214-217
TotalTexto(doc) ==
    LET total == Join(TextoCompletoGranite(doc))
    IN  IF Strip(total) = <<>> THEN NenhumTexto ELSE total

Conta(elementos, tipo) == Len(SelectSeq(elementos, LAMBDA e : e.tipo = tipo))

\* lines 226-240
ResultadoGranite(doc) ==
    LET elementos == ElementosGranite(doc)
        contador == Len(LinhasGranite(doc.pictures, 0))
    IN  [elementos |-> elementos,
         texto |-> TotalTexto(doc),
         resumo |-> [total_elementos |-> Len(elementos),
                     total_textos |-> Conta(elementos, "texto"),
                     total_tabelas |-> Conta(elementos, "tabela"),
                     total_imagens |-> Conta(elementos, "imagem"),
                     descricoes_granite |-> contador,
                     modelo |-> "granite-vision",
                     status |-> "sucesso_com_granite",
                     granite_ativo |-> TRUE,
                     taxa_sucesso |-> <<contador, Conta(elementos, "imagem")>>]]

\* the fallback dict without its texto key
ResultadoFallbackSemTexto(doc) ==
    [elementos |-> ElementosFallback(doc),
     resumo |-> [total_elementos |-> Len(ElementosFallback(doc)),
                 descricoes_granite |-> 0,
                 modelo |-> "fallback-sem-vlm",
                 status |-> "sucesso_fallback"]]

\* lines 337-346
ResultadoFallback(doc) ==
    LET elementos == ElementosFallback(doc)
    IN  [elementos |-> elementos,
         texto |-> Join([i \in 1..Len(Textuais(doc)) |-> Textuais(doc)[i].text]),
         resumo |-> [total_elementos |-> Len(elementos),
                     descricoes_granite |-> 0,
                     modelo |-> "fallback-sem-vlm",
                     status |-> "sucesso_fallback"]]

\* lines 350-359
FalhaTotal(msg) ==
    [elementos |-> <<>>,
     texto |-> <<"Erro critico: ">> \o msg,
     resumo |-> [total_elementos |-> 0,
                 descricoes_granite |-> 0,
                 modelo |-> "erro",
                 status |-> "falha_total"]]

\* json.dumps inside JSONResponse(content=resultado) succeeds
Serializavel(res) == \A i \in 1..Len(res.elementos) :
    res.elementos[i].tipo = "imagem" => res.elementos[i].legenda # "obj"

\* ------------------------------------------------------------ state
VARIABLES
    DOCLING_OK,     \* line 21 / 24: whether the docling import succeeded
    pc,             \* where the request in flight stands
    rota,           \* the route whose handler runs the request in flight
    filename,       \* file.filename
    conteudo,       \* len(conteudo), -1 before file.read()
    lido,           \* file.read() was awaited
    arquivo_temp,   \* arquivo_temp: 0 for None, else the temporary file's name
    disco,          \* the temporary files that exist on disk
    imagens,        \* IMAGES_DIR: file name -> content
    chamadas,       \* the converter.convert calls of this request: do_picture_description of each
    resultado,      \* the dict returned by processar_documento_granite
    erro_granite,   \* the exception caught at line 248
    resposta,       \* the HTTP response, final once pc = "done"
    emitidas,       \* the <<name, content>> of every image URL returned in a 200 response
    atendidas       \* number of POST requests received

vars == <<DOCLING_OK, pc, rota, filename, conteudo, lido, arquivo_temp, disco, imagens,
          chamadas, resultado, erro_granite, resposta, emitidas, atendidas>>

Gets == {"/", "/test", "/status"}

SemResposta == [status |-> 0, corpo |-> [vazio |-> TRUE]]
SemResultado == [vazio |-> TRUE]
HttpErro(codigo, detalhe) == [status |-> codigo, corpo |-> [detail |-> detalhe]]

\* the event loop is free for a new request
Livre == pc \in {"idle", "done"}

Init ==
    /\ DOCLING_OK \in BOOLEAN
    /\ pc = "idle"
    /\ rota = ""
    /\ filename = NoName
    /\ conteudo = -1
    /\ lido = FALSE
    /\ arquivo_temp = 0
    /\ disco = {}
    /\ imagens = << >>
    /\ chamadas = << >>
    /\ resultado = SemResultado
    /\ erro_granite = SemErro
    /\ resposta = SemResposta
    /\ emitidas = {}
    /\ atendidas = 0

\* the per-request variables of a request that has just arrived
Nova(rt, fn) ==
    /\ rota' = rt
    /\ filename' = fn
    /\ conteudo' = -1
    /\ lido' = FALSE
    /\ arquivo_temp' = 0
    /\ chamadas' = << >>
    /\ resultado' = SemResultado
    /\ erro_granite' = SemErro

\* lines 32-34: GET /
status ==
    /\ Livre
    /\ Nova("/", NoName)
    /\ resposta' = [status |-> 200,
                    corpo |-> [status |-> "ok", docling |-> DOCLING_OK,
                               modelo |-> "granite-vision", porta |-> 9000]]
    /\ pc' = "done"
    /\ UNCHANGED <<DOCLING_OK, disco, imagens, emitidas, atendidas>>

\* GET /test answering without its status key
testeSemStatus ==
    /\ Livre
    /\ Nova("/test", NoName)
    /\ resposta' = [status |-> 200,
                    corpo |-> [docling |-> DOCLING_OK, modelo |-> "granite-vision",
                               endpoint_principal |-> "/convert",
                               granite_ativo |-> TRUE, porta |-> 9000]]
    /\ pc' = "done"
    /\ UNCHANGED <<DOCLING_OK, disco, imagens, emitidas, atendidas>>

\* lines 414-423: GET /test
teste ==
    /\ Livre
    /\ Nova("/test", NoName)
    /\ resposta' = [status |-> 200,
                    corpo |-> [status |-> "Granite API OK", docling |-> DOCLING_OK,
                               modelo |-> "granite-vision", endpoint_principal |-> "/convert",
                               granite_ativo |-> TRUE, porta |-> 9000]]
    /\ pc' = "done"
    /\ UNCHANGED <<DOCLING_OK, disco, imagens, emitidas, atendidas>>

\* lines 425-446: GET /status
status_detalhado ==
    /\ Livre
    /\ Nova("/status", NoName)
    /\ resposta' = [status |-> 200,
                    corpo |-> [docling_disponivel |-> DOCLING_OK,
                               granite_ativo |-> TRUE,
                               porta |-> 9000,
                               endpoints |-> [principal |-> "/convert", teste |-> "/test-granite",
                                              status |-> "/test"],
                               limites |-> [tamanho_max |-> "25MB", formatos |-> <<"PDF">>],
                               recursos |-> [vlm |-> "granite-vision", ocr |-> TRUE,
                                             tabelas |-> TRUE, imagens |-> TRUE]]]
    /\ pc' = "done"
    /\ UNCHANGED <<DOCLING_OK, disco, imagens, emitidas, atendidas>>

\* lines 363-368: converter_documento up to its first await.
\* A filename of None makes .lower() raise AttributeError outside every try block; the
\* framework answers 500.
Receber(fn) ==
    /\ Livre
    /\ atendidas < MaxRequests
    /\ atendidas' = atendidas + 1
    /\ Nova("/convert", fn)
    /\ IF ~fn.presente
         THEN resposta' = HttpErro(500, "Internal Server Error") /\ pc' = "done"
         ELSE IF ~NomeAceito(fn)
         THEN resposta' = HttpErro(400, "Apenas arquivos PDF sao aceitos") /\ pc' = "done"
         ELSE resposta' = SemResposta /\ pc' = "lendo"
    /\ UNCHANGED <<DOCLING_OK, disco, imagens, emitidas>>

\* lines 408-412: POST /test-granite hands the upload to converter_documento
testar_granite(fn) == Receber(fn)

\* lines 371-378: the read is awaited, then the size is checked
Ler(n) ==
    /\ pc = "lendo"
    /\ conteudo' = n
    /\ lido' = TRUE
    /\ IF MuitoGrande(n)
         THEN resposta' = HttpErro(400, "Arquivo muito grande para Granite") /\ pc' = "done"
         ELSE resposta' = SemResposta /\ pc' = "salvar"
    /\ UNCHANGED <<DOCLING_OK, rota, filename, arquivo_temp, disco, imagens, chamadas,
                   resultado, erro_granite, emitidas, atendidas>>

\* tempfile.NamedTemporaryFile picks a name no existing file has
NomeTemp == atendidas

\* lines 381-387: the temporary file is created (delete=False), written, and only then is
\* its name stored in arquivo_temp. A failure of either step is caught at line 397.
Salvar(desfecho) ==
    /\ pc = "salvar"
    /\ CASE desfecho = "ok" ->
              /\ disco' = disco \cup {NomeTemp}
              /\ arquivo_temp' = NomeTemp
              /\ resposta' = resposta
              /\ pc' = "granite"
         [] desfecho = "falha_escrita" ->
              /\ disco' = disco \cup {NomeTemp}
              /\ arquivo_temp' = arquivo_temp
              /\ resposta' = HttpErro(500, "Erro interno")
              /\ pc' = "finally"
         [] desfecho = "falha_criacao" ->
              /\ disco' = disco
              /\ arquivo_temp' = arquivo_temp
              /\ resposta' = HttpErro(500, "Erro interno")
              /\ pc' = "finally"
    /\ UNCHANGED <<DOCLING_OK, rota, filename, conteudo, lido, imagens, chamadas,
                   resultado, erro_granite, emitidas, atendidas>>

Desfechos == {"ok", "falha_escrita", "falha_criacao"}

RECURSIVE Copiar(_, _, _, _)
\* lines 139-143 / 321-325 over all pictures: shutil.copy into IMAGES_DIR
Copiar(dir, prefixo, pics, i) ==
    IF i >= Len(pics) THEN dir
    ELSE LET pic == pics[i + 1]
             novo == IF pic.image # "none"
                     THEN (NomeArquivo(prefixo, Pagina(pic.prov), i) :> pic.image) @@ dir
                     ELSE dir
         IN  Copiar(novo, prefixo, pics, i + 1)

\* where processing raises: nowhere, before converter.convert is called, inside it, or
\* after the pictures were copied
Falhas == {"nenhuma", "antes", "convert", "depois"}

\* the availability check always passing
DoclingSempreDisponivel == FALSE

\* line 38: not DOCLING_OK
DoclingIndisponivel == ~DOCLING_OK

\* lines 37-258: processar_documento_granite
Granite(falha, msg, doc) ==
    /\ pc = "granite"
    /\ IF DoclingIndisponivel
         THEN /\ resposta' = HttpErro(500, "Docling nao disponivel")
              /\ pc' = "finally"
              /\ UNCHANGED <<chamadas, imagens, resultado, erro_granite>>
         ELSE /\ chamadas' = IF falha = "antes" THEN chamadas ELSE Append(chamadas, TRUE)
              /\ imagens' = IF falha \in {"nenhuma", "depois"}
                            THEN Copiar(imagens, "granite_img", doc.pictures, 0)
                            ELSE imagens
              /\ IF falha = "nenhuma"
                   THEN /\ resultado' = ResultadoGranite(doc)
                        /\ erro_granite' = erro_granite
                        /\ resposta' = resposta
                        /\ pc' = "responder"
                   ELSE /\ resultado' = resultado
                        /\ erro_granite' = Erro(msg)
                        /\ IF ErroDeMemoria(msg)
                             THEN resposta' = resposta /\ pc' = "fallback"
                             ELSE resposta' = HttpErro(500, "Erro Granite") /\ pc' = "finally"
    /\ UNCHANGED <<DOCLING_OK, rota, filename, conteudo, lido, arquivo_temp, disco,
                   emitidas, atendidas>>

\* a fallback that tries again when it fails
FallbackRetenta(falha, msg, doc) ==
    /\ pc = "fallback"
    /\ chamadas' = IF falha = "antes" THEN chamadas ELSE Append(chamadas, FALSE)
    /\ imagens' = IF falha \in {"nenhuma", "depois"}
                  THEN Copiar(imagens, "fallback_img", doc.pictures, 0)
                  ELSE imagens
    /\ resultado' = IF falha = "nenhuma" THEN ResultadoFallback(doc) ELSE resultado
    /\ pc' = IF falha = "nenhuma" THEN "responder" ELSE "fallback"
    /\ UNCHANGED <<DOCLING_OK, rota, filename, conteudo, lido, arquivo_temp, disco,
                   erro_granite, resposta, emitidas, atendidas>>

\* lines 261-359: processar_documento_fallback, entered from line 256
Fallback(falha, msg, doc) ==
    /\ pc = "fallback"
    /\ chamadas' = IF falha = "antes" THEN chamadas ELSE Append(chamadas, FALSE)
    /\ imagens' = IF falha \in {"nenhuma", "depois"}
                  THEN Copiar(imagens, "fallback_img", doc.pictures, 0)
                  ELSE imagens
    /\ resultado' = IF falha = "nenhuma" THEN ResultadoFallback(doc) ELSE FalhaTotal(msg)
    /\ pc' = "responder"
    /\ UNCHANGED <<DOCLING_OK, rota, filename, conteudo, lido, arquivo_temp, disco,
                   erro_granite, resposta, emitidas, atendidas>>

\* lines 392-399: JSONResponse(content=resultado) encodes the dict; a failure to encode
\* is caught at line 397
Responder ==
    /\ pc = "responder"
    /\ resposta' = IF Serializavel(resultado)
                   THEN [status |-> 200, corpo |-> resultado]
                   ELSE HttpErro(500, "Erro interno")
    /\ pc' = "finally"
    /\ UNCHANGED <<DOCLING_OK, rota, filename, conteudo, lido, arquivo_temp, disco, imagens,
                   chamadas, resultado, erro_granite, emitidas, atendidas>>

\* the image URLs of a response body, each with the file content it names
UrlsDe(corpo) ==
    {<<corpo.elementos[i].url, imagens[corpo.elementos[i].url]>> :
        i \in {j \in 1..Len(corpo.elementos) :
                  /\ corpo.elementos[j].tipo = "imagem"
                  /\ corpo.elementos[j].url # SemUrl}}

\* lines 401-405: the finally block, after which the response leaves
Finally ==
    /\ pc = "finally"
    /\ disco' = IF arquivo_temp # 0 /\ arquivo_temp \in disco
                THEN disco \ {arquivo_temp}
                ELSE disco
    /\ emitidas' = IF resposta.status = 200 THEN emitidas \cup UrlsDe(resposta.corpo)
                   ELSE emitidas
    /\ pc' = "done"
    /\ UNCHANGED <<DOCLING_OK, rota, filename, conteudo, lido, arquivo_temp, imagens,
                   chamadas, resultado, erro_granite, resposta, atendidas>>

Next ==
    \/ status
    \/ teste
    \/ status_detalhado
    \/ \E fn \in Filenames : Receber(fn)
    \/ \E fn \in Filenames : testar_granite(fn)
    \/ \E n \in Tamanhos : Ler(n)
    \/ \E d \in Desfechos : Salvar(d)
    \/ \E f \in Falhas, m \in Msgs, doc \in Docs : Granite(f, m, doc)
    \/ \E f \in Falhas, m \in Msgs, doc \in Docs : Fallback(f, m, doc)
    \/ Responder
    \/ Finally

Spec == Init /\ [][Next]_vars

\* ------------------------------------------------------------ properties
\* a POST request has been answered
Respondida == pc = "done" /\ rota = "/convert"

RECURSIVE UltimoPonto(_)
\* the position of the last "." of s, 0 when it has none
UltimoPonto(s) ==
    IF s = <<>> THEN 0
    ELSE IF s[Len(s)] = "." THEN Len(s)
    ELSE UltimoPonto(SubSeq(s, 1, Len(s) - 1))

\* the extension of a filename: from its last "." on, empty when it has none
Extensao(s) == IF UltimoPonto(s) = 0 THEN <<>> ELSE SubSeq(s, UltimoPonto(s), Len(s))

ExtensaoPdf(fn) == fn.presente /\ Lower(Extensao(fn.valor)) = <<".", "p", "d", "f">>

\* the upload in flight is a .pdf of at most 25 MB that was read
PdfValido == rota = "/convert" /\ ExtensaoPdf(filename) /\ lido /\ conteudo <= 26214400

Usadas(seq) == {seq[i] : i \in 1..Len(seq)}

\* C1: once a POST request has completed, whatever its outcome, the temporary file
\* created for it is no longer on disk.
C1_TempAusente == Respondida => NomeTemp \notin disco

\* C2: an upload whose filename has no extension, or one other than .pdf compared
\* case-insensitively, is answered 400 without the body being read, a temporary file
\* being created or the converter being invoked.
C2_ExtensaoRejeitada ==
    (rota = "/convert" /\ filename.presente /\ ~ExtensaoPdf(filename)) =>
        /\ pc = "done"
        /\ resposta.status = 400
        /\ ~lido
        /\ arquivo_temp = 0
        /\ NomeTemp \notin disco
        /\ chamadas = << >>

C2_Witness ==
    /\ Respondida
    /\ filename = Name(<<"a", ".", "p", "d", "f", ".", "T", "X", "T">>)
    /\ resposta.status = 400

\* C3: a .pdf upload of more than 25 * 1024 * 1024 bytes is answered 400 before a
\* temporary file is created or the converter invoked; one of exactly that size or less
\* passes the size check.
C3_LimiteTamanho ==
    (rota = "/convert" /\ lido) =>
        IF conteudo > 25 * 1024 * 1024
        THEN /\ pc = "done"
             /\ resposta.status = 400
             /\ arquivo_temp = 0
             /\ NomeTemp \notin disco
             /\ chamadas = << >>
        ELSE /\ pc # "lendo"
             /\ resposta.status # 400

C3_Witness ==
    /\ Respondida
    /\ lido
    /\ conteudo = 25 * 1024 * 1024 + 1
    /\ resposta.status = 400

\* C4 as claimed: with the conversion library unavailable, a valid PDF upload (here one
\* that was saved to its temporary file) is still answered 200.
C4_Original ==
    (Respondida /\ PdfValido /\ arquivo_temp # 0 /\ ~DOCLING_OK) => resposta.status = 200

\* C4: with the conversion library unavailable, a valid PDF upload is answered 500
\* ("Docling nao disponivel" once the upload was saved), never 200, and the converter is
\* not invoked.
C4_IndisponivelDa500 ==
    (Respondida /\ PdfValido /\ ~DOCLING_OK) =>
        /\ resposta.status = 500
        /\ chamadas = << >>
        /\ resultado = SemResultado
        /\ arquivo_temp # 0 => resposta = HttpErro(500, "Docling nao disponivel")

C4_Witness ==
    /\ Respondida
    /\ PdfValido
    /\ ~DOCLING_OK
    /\ arquivo_temp # 0
    /\ resposta = HttpErro(500, "Docling nao disponivel")

\* C5 as claimed: whatever exception the Granite processing raises, the conversion is
\* retried without the vision model and the request is answered 200.
C5_Original ==
    (Respondida /\ erro_granite.houve) => (resposta.status = 200 /\ FALSE \in Usadas(chamadas))

\* C5: when the Granite processing raises an exception whose message contains
\* "memory" or "buffer size" in any letter case, the fallback without the vision model
\* runs and its result is answered 200 if it can be JSON-encoded; after any other
\* exception nothing is retried and the answer is 500 "Erro Granite".
C5_RetentaSoMemoria ==
    (Respondida /\ erro_granite.houve) =>
        IF erro_granite.msg \in {MsgMemory, MsgBufferSize}
        THEN /\ resultado # SemResultado
             /\ resultado.resumo.status \in {"sucesso_fallback", "falha_total"}
             /\ resultado.resumo.status = "falha_total" => resposta.status = 200
             /\ resposta.status \in {200, 500}
             /\ resposta.status = 200 => resposta.corpo = resultado
             /\ resposta.status = 500 =>
                    \E i \in 1..Len(resultado.elementos) :
                        /\ resultado.elementos[i].tipo = "imagem"
                        /\ resultado.elementos[i].legenda = "obj"
        ELSE /\ resposta = HttpErro(500, "Erro Granite")
             /\ FALSE \notin Usadas(chamadas)
             /\ resultado = SemResultado

C5_Witness ==
    /\ Respondida
    /\ erro_granite = Erro(MsgBufferSize)
    /\ chamadas = <<TRUE, FALSE>>
    /\ resposta.status = 200
    /\ resposta.corpo.resumo.status = "sucesso_fallback"

\* C6 as claimed: a successful conversion is answered with a body holding
\* document.text, document.elements and document.pages.
C6_Original ==
    (Respondida /\ resposta.status = 200) =>
        /\ "document" \in DOMAIN resposta.corpo
        /\ {"text", "elements", "pages"} \subseteq DOMAIN resposta.corpo.document

\* C6: a successful conversion, by Granite or by the fallback, is answered with a body
\* holding exactly texto, elementos (a sequence of typed elements, each with a page)
\* and resumo (whose total_elementos is the length of elementos); it has no document
\* envelope and no pages.
C6_CorpoConversao ==
    (Respondida /\ resposta.status = 200) =>
        LET corpo == resposta.corpo
        IN  /\ DOMAIN corpo = {"elementos", "texto", "resumo"}
            /\ DOMAIN corpo.elementos = 1..Len(corpo.elementos)
            /\ \A i \in 1..Len(corpo.elementos) :
                   /\ corpo.elementos[i].tipo \in {"texto", "tabela", "imagem"}
                   /\ corpo.elementos[i].pagina >= 1
            /\ DOMAIN corpo.texto = 1..Len(corpo.texto)
            /\ corpo.resumo.total_elementos = Len(corpo.elementos)
            /\ corpo.resumo.status \in {"sucesso_com_granite", "sucesso_fallback", "falha_total"}

C6_Witness ==
    /\ Respondida
    /\ resposta.status = 200
    /\ resposta.corpo.resumo.status = "sucesso_fallback"
    /\ Len(resposta.corpo.elementos) = 3

\* C7 as claimed: GET /, GET /test and GET /status all answer 200 with a status field.
C7_Original ==
    (pc = "done" /\ rota \in Gets) =>
        (resposta.status = 200 /\ "status" \in DOMAIN resposta.corpo)

\* C7: GET /, GET /test and GET /status answer 200 in every server state, also when the
\* conversion library failed to import; the bodies of GET / and GET /test hold a status
\* field, the body of GET /status holds none (it reports docling_disponivel).
C7_SaudeSempre200 ==
    (pc = "done" /\ rota \in Gets) =>
        /\ resposta.status = 200
        /\ rota \in {"/", "/test"} =>
              /\ "status" \in DOMAIN resposta.corpo
              /\ resposta.corpo.docling = DOCLING_OK
        /\ rota = "/status" =>
              /\ "status" \notin DOMAIN resposta.corpo
              /\ resposta.corpo.docling_disponivel = DOCLING_OK

C7_Witness ==
    /\ pc = "done"
    /\ rota = "/test"
    /\ ~DOCLING_OK
    /\ atendidas > 0
    /\ resposta.status = 200

\* C8: an upload whose filename is None is answered 400, not 500.
C8_SemNome400 == (Respondida /\ ~filename.presente) => resposta.status = 400

\* C9: within one request the converter is invoked at most twice, first with picture
\* description enabled and then, only after that processing raised, at most once with it
\* disabled; the fallback hands over to the response and is never followed by another
\* attempt, and its failure is answered with the falha_total payload.
C9_NoMaximoDuasChamadas ==
    /\ [](rota = "/convert" =>
            /\ chamadas \in {<< >>, <<TRUE>>, <<FALSE>>, <<TRUE, FALSE>>}
            /\ FALSE \in Usadas(chamadas) => erro_granite.houve
            /\ pc \in {"lendo", "salvar", "granite"} => chamadas = << >>
            /\ (pc = "done" /\ resultado # SemResultado
                              /\ resultado.resumo.status = "falha_total") =>
                   resposta = [status |-> 200, corpo |-> resultado])
    /\ [][(pc = "fallback" => pc' = "responder")
           /\ (pc = "responder" => pc' = "finally")
           /\ (pc = "finally" => pc' = "done")
           /\ (pc' = "granite" => pc = "salvar")
           /\ (pc' = "fallback" => pc = "granite")]_vars

C9_Witness ==
    /\ Respondida
    /\ chamadas = <<TRUE, FALSE>>
    /\ resposta.status = 200
    /\ resposta.corpo.resumo.status = "falha_total"

\* C10: an image URL returned in an earlier response still names the image that was
\* extracted for that response.
C10_UrlEstavel ==
    \A par \in emitidas : par[1] \in DOMAIN imagens /\ imagens[par[1]] = par[2]

====
